---- MODULE Spec2Model ----
(***************************************************************************)
(* GPURecSteps (tests/work/bq/rec_steps copy.py): the chunked overlap      *)
(* pipelines proc_sino_parallel and proc_proj_parallel, driven directly or *)
(* from recon_steps_all.  Arrays are modelled on two axes, [angle][z]; the *)
(* trailing detector axis is never sliced by the code and is collapsed.    *)
(* stream1 = Load, stream2 = Compute, stream3 = Store.                     *)
(***************************************************************************)
EXTENDS Integers, Sequences, FiniteSets, TLC

\* ---------------------------------------------------------------- bounds
\* largest chunk length (ncz / ncproj) explored
MaxChunkLen == 3
\* largest chunk count (nzchunk / ntchunk) explored for a directly called pipeline
MaxChunks == 4
\* largest extent of either axis when the two pipelines run chained in recon_steps_all
ReconExtent == 2
\* largest worker count (nthreads) explored for a directly called bulk reader
MaxWorkers == 3
\* largest number of projections explored for a directly called bulk reader
\* (next to the 100-projection dataset)
MaxReadExtent == 5

VARIABLES
    cfg,        \* args / cl_conf of the run: caller, zarr, doubleFov, preproc, stage, nproj, nz, ncz, ncproj, nthreads, nread
    phase,      \* where recon_steps_all (or the direct caller) is: "read", "sino", "proj", "backproj", "done"
    pc,         \* the host's position inside the pipeline loop body
    k,          \* the loop variable k of the running pipeline
    heap,       \* the full-size arrays by object: "raw" (bulk-read data), "dark", "flat", "sres", "pres"
    srcId,      \* which object the running pipeline's `data` is
    dstId,      \* which object the running pipeline's `res` is
    inGpu,      \* item_gpu[role] / data_gpu : 2 device input slots per role
    outGpu,     \* rec_gpu : 2 device output slots
    inPin,      \* item_pinned[role] / data_pinned : 2 pinned input slots per role (in-memory mode)
    outPin,     \* rec_pinned : 2 pinned output slots (in-memory mode)
    chan,       \* per stream: the queue of operations enqueued and not yet complete (head first)
    hostOp,     \* the host memory copy in progress (utils.copy), if any
    err,        \* the failure of a channel operation not yet surfaced to the host
    raised,     \* the exception that left the pipeline function, as the caller sees it
    issued,     \* history of this pipeline run: the operations enqueued, in order, <<channel, chunk, iteration, slot>>
    completed,  \* history of this pipeline run: the channel operations that ran to completion, <<channel, chunk>>
    flushed,    \* history of this pipeline run: the writes made to the destination array, in order
    progress,   \* history of this pipeline run: the printProgressBar calls, <<current, total>>
    returned,   \* the object the last pipeline function returned ("none" before)
    backprojArg, \* the object handed to cl_backproj.rec_fun ("none" before)
    procs,      \* the bulk reader's worker threads in start order: the range handed to each and its state
    joined,     \* how many of procs the bulk reader's join loop has joined
    firstResult \* the destination contents a first call of the pipeline left, once a second call is under way

vars == <<cfg, phase, pc, k, heap, srcId, dstId, inGpu, outGpu, inPin, outPin,
          chan, hostOp, err, raised, issued, completed, flushed, progress,
          returned, backprojArg, procs, joined, firstResult>>

\* ------------------------------------------------------------ chunk plan
\* ceil(a / b) for positive b
CeilDiv(a, b) == (a + b - 1) \div b

\* the chunked axis of a pipeline: proc_sino_parallel slices axis 1 (z),
\* proc_proj_parallel slices axis 0 (angle)
Axis(ph) == IF ph = "sino" THEN "z" ELSE "a"

\* extent of the chunked axis (nz resp. nproj)
Extent(c, ph) == IF ph = "sino" THEN c.nz ELSE c.nproj

\* ncz resp. ncproj: the slot length along the chunked axis
ChunkStride(c, ph) == IF ph = "sino" THEN c.ncz ELSE c.ncproj

\* nzchunk resp. ntchunk
ChunkCount(c, ph) == CeilDiv(Extent(c, ph), ChunkStride(c, ph))

\* lzchunk[i] resp. ltchunk[i]: every chunk is ncz long, the last takes the remainder
ChunkLength(c, ph, i) ==
    IF i = ChunkCount(c, ph) - 1
    THEN Extent(c, ph) - (ChunkCount(c, ph) - 1) * ChunkStride(c, ph)
    ELSE ChunkStride(c, ph)

\* first index of the range the code addresses for chunk i: i*ncz resp. i*ncproj
ChunkStart(c, ph, i) == i * ChunkStride(c, ph)

\* the index range [i*nc, i*nc + l_i) of chunk i
ChunkRange(c, ph, i) ==
    ChunkStart(c, ph, i) .. (ChunkStart(c, ph, i) + ChunkLength(c, ph, i) - 1)

\* ----------------------------------------------------------------- arrays
\* extent of the axis a pipeline does not chunk
OtherExtent(c, ph) == IF ph = "sino" THEN c.nproj ELSE c.nz

\* np.zeros of the full shape (v = 0); zarr.empty of the full shape holds
\* unspecified values until written (any v)
FilledArray(c, v) == [a \in 0 .. c.nproj - 1 |-> [z \in 0 .. c.nz - 1 |-> v]]

\* what an entry of a zarr.empty array may read back as before it is written
UninitValues == {0, 0 - 1}

\* the bulk-read dataset: every entry distinct and non-zero
RawArray(c) == [a \in 0 .. c.nproj - 1 |-> [z \in 0 .. c.nz - 1 |-> a * c.nz + z + 1]]

\* one line of an array across the chunked axis: arr[:, i] resp. arr[i]
Line(arr, ax, i) ==
    IF ax = "z" THEN [a \in DOMAIN arr |-> arr[a][i]] ELSE arr[i]

\* arr[:, lo:lo+n] resp. arr[lo:lo+n], as n lines
ReadSlice(arr, ax, lo, n) == [j \in 0 .. n - 1 |-> Line(arr, ax, lo + j)]

\* arr[:, lo:lo+n] = rows resp. arr[lo:lo+n] = rows
WriteSlice(arr, ax, lo, n, rows) ==
    [a \in DOMAIN arr |-> [z \in DOMAIN arr[a] |->
        IF ax = "z"
        THEN (IF z \in lo .. lo + n - 1 THEN rows[z - lo][a] ELSE arr[a][z])
        ELSE (IF a \in lo .. lo + n - 1 THEN rows[a - lo][z] ELSE arr[a][z])]]

\* two zero-initialised slots of the chunk shape: zeros([2, *shape_data_chunk])
ZeroSlots(c, ph) ==
    [p \in 0 .. 1 |-> [j \in 0 .. ChunkStride(c, ph) - 1 |->
        [o \in 0 .. OtherExtent(c, ph) - 1 |-> 0]]]

\* mutant: the copy stops one line early
SetLeading_OffByOne(slot, n, rows) ==
    [j \in DOMAIN slot |-> IF j < n - 1 THEN rows[j] ELSE slot[j]]

\* the leading n lines of a slot replaced: slot[:n] = rows
SetLeading(slot, n, rows) ==
    [j \in DOMAIN slot |-> IF j < n THEN rows[j] ELSE slot[j]]

\* the stage function (proc_sino / proc_proj), a pure element-wise transform;
\* "id" is the identity, "neg" a transform that changes every non-zero entry
StageValue(fn, v) == IF fn = "id" THEN v ELSE 0 - v

\* the stage function applied to a whole slot
StageSlot(fn, slot) ==
    [j \in DOMAIN slot |-> [o \in DOMAIN slot[j] |-> StageValue(fn, slot[j][o])]]

\* ------------------------------------------------------------------ roles
\* the arrays a pipeline loads per chunk: proc_sino_parallel also loads the
\* calibration frames, chunked by the same plan
Roles(ph) == IF ph = "sino" THEN {"data", "dark", "flat"} ELSE {"data"}

AllRoles == {"data", "dark", "flat"}

\* leading extent of a role's array (nproj; ndark = nflat = 1 frame here)
RoleRows(c, ph, r) == IF r = "data" THEN OtherExtent(c, ph) ELSE 1

\* initial fill of a role's slots: np.zeros, but np.ones / cp.ones for 'flat'
RoleFill(r) == IF r = "flat" THEN 1 ELSE 0

\* the 2 slots of every role a pipeline allocates
RoleSlots(c, ph) ==
    [r \in AllRoles |->
        IF r \in Roles(ph)
        THEN [p \in 0 .. 1 |-> [j \in 0 .. ChunkStride(c, ph) - 1 |->
                 [o \in 0 .. RoleRows(c, ph, r) - 1 |-> RoleFill(r)]]]
        ELSE <<>>]

\* the dark / flat frames read by read_flat_dark: one frame each, [1][nz]
CalibArray(c, base) == [a \in 0 .. 0 |-> [z \in 0 .. c.nz - 1 |-> 2 * z + base]]

\* ------------------------------------------------------------ configurations
\* (extent, chunk length) of every plan with at most MaxChunks chunks: n chunks
\* of length nc, the last of length r <= nc; the chunk length does not exceed
\* the extent
Plans ==
    { <<(n - 1) * nc + r, nc>> :
        <<n, nc, r>> \in { t \in (1 .. MaxChunks) \X (1 .. MaxChunkLen) \X (1 .. MaxChunkLen) :
                             t[3] <= t[2] /\ (t[1] = 1 => t[3] = t[2]) } }

Stages == {"id", "neg"}

\* proc_sino_parallel called on its own
SinoConfigs ==
    { [caller |-> "sino", zarr |-> zr, doubleFov |-> FALSE, preproc |-> TRUE, stage |-> fn,
       nproj |-> 1, nz |-> pl[1], ncz |-> pl[2], ncproj |-> 1, nthreads |-> 1, nread |-> 1] :
        zr \in BOOLEAN, fn \in Stages, pl \in Plans }

\* proc_proj_parallel called on its own
ProjConfigs ==
    { [caller |-> "proj", zarr |-> zr, doubleFov |-> df, preproc |-> TRUE, stage |-> fn,
       nproj |-> pl[1], nz |-> 1, ncz |-> 1, ncproj |-> pl[2], nthreads |-> 1, nread |-> pl[1]] :
        zr \in BOOLEAN, df \in BOOLEAN, fn \in Stages, pl \in Plans }

\* recon_steps_all: the bulk read and both pipelines chained, on small arrays
\* (use_zarr selects read_to_zarr, otherwise read_data_parallel)
ReconConfigs ==
    { [caller |-> "recon", zarr |-> zr, doubleFov |-> df, preproc |-> pp, stage |-> "id",
       nproj |-> sh[1], nz |-> sh[2], ncz |-> sh[3], ncproj |-> sh[4], nthreads |-> nt, nread |-> sh[1]] :
        zr \in BOOLEAN, df \in BOOLEAN, pp \in BOOLEAN, nt \in 1 .. ReconExtent,
        sh \in { t \in (1 .. ReconExtent) \X (1 .. ReconExtent) \X (1 .. ReconExtent) \X (1 .. ReconExtent) :
                   t[3] <= t[2] /\ t[4] <= t[1] } }

\* read_data_parallel / read_to_zarr called on their own with nthreads workers,
\* a buffer of leading extent nproj (cl_conf.nproj) and nread projections to
\* read (args.end_proj - args.start_proj)
ReadConfigs ==
    { [caller |-> "read", zarr |-> zr, doubleFov |-> FALSE, preproc |-> FALSE, stage |-> "id",
       nproj |-> sz, nz |-> 1, ncz |-> 1, ncproj |-> 1, nthreads |-> nt, nread |-> e] :
        zr \in BOOLEAN, nt \in 1 .. MaxWorkers,
        sz \in (1 .. MaxReadExtent) \cup {100}, e \in (1 .. MaxReadExtent) \cup {100} }

Configs == SinoConfigs \cup ProjConfigs \cup ReconConfigs \cup ReadConfigs

\* ------------------------------------------------------------- channel ops
Channels == {"Load", "Compute", "Store"}

NoErr == [ch |-> "none", i |-> -1, k |-> -1]

NoExc == [exc |-> "none", chunk |-> -1, channel |-> "none"]

NoHostOp == [kind |-> "none", i |-> -1]

NoResult == [done |-> FALSE, val |-> <<>>]

\* the first stage the caller enters: recon_steps_all (lines 138-141) and the
\* direct caller of a reader start with the bulk read
FirstPhase(c) ==
    IF c.caller = "proj" THEN "proj"
    ELSE IF c.caller = "sino" THEN "sino"
    ELSE "read"

\* the full-size arrays before the first stage: a directly called pipeline is
\* handed the dataset and the calibration frames, a reader has yet to make them
InitHeap(c) ==
    [id \in {"raw", "dark", "flat", "sres", "pres"} |->
        IF FirstPhase(c) = "read" THEN <<>>
        ELSE CASE id = "raw" -> RawArray(c)
               [] id = "dark" -> CalibArray(c, 1)
               [] id = "flat" -> CalibArray(c, 2)
               [] OTHER -> <<>>]

Init ==
    /\ cfg \in Configs
    /\ phase = FirstPhase(cfg)
    /\ pc = IF FirstPhase(cfg) = "read" THEN "calib" ELSE "alloc"
    /\ k = 0
    /\ heap = InitHeap(cfg)
    /\ procs = <<>>
    /\ joined = 0
    /\ firstResult = NoResult
    /\ srcId = "raw"
    /\ dstId = "none"
    /\ inGpu = [r \in AllRoles |-> <<>>]
    /\ inPin = [r \in AllRoles |-> <<>>]
    /\ outGpu = <<>>
    /\ outPin = <<>>
    /\ chan = [ch \in Channels |-> <<>>]
    /\ hostOp = NoHostOp
    /\ err = NoErr
    /\ raised = NoExc
    /\ issued = <<>>
    /\ completed = {}
    /\ flushed = <<>>
    /\ progress = <<>>
    /\ returned = "none"
    /\ backprojArg = "none"

\* --------------------------------------------------------------- shorthands
\* the pipeline's chunk count (nzchunk / ntchunk)
NChunk == ChunkCount(cfg, phase)

\* buffer slot of chunk i: the code's (k-1) % 2, (k-2) % 2, k % 2
\* mutant: a single slot instead of the two alternated by parity
Slot_Single(i) == 0

Slot(i) == i % 2

\* the chunk each step of iteration kk works on (lines 259/327, 264/332, 272/339)
\* mutant: the stage function is run on the chunk being loaded in the same iteration
ComputeChunk_SameIteration(kk) == kk

ComputeChunk(kk) == kk - 1

\* mutant: the flush addresses the chunk of the current iteration
StoreChunk_NoLag(kk) == kk

StoreChunk(kk) == kk - 2

LoadChunk(kk) == kk

\* the loop conditions of lines 257/325, 261/329, 268/335
\* mutant: the lower bound k > 0 of the Compute step is missing
ComputeDue_FromStart(kk) == kk < NChunk + 1

ComputeDue(kk) == kk > 0 /\ kk < NChunk + 1

StoreDue(kk) == kk > 1

LoadDue(kk) == kk < NChunk

\* isinstance(data, zarr.core.Array)
IsZarr == cfg.zarr

\* the object a role is loaded from
SrcOf(r) == IF r = "data" THEN srcId ELSE r

InPipeline == phase \in {"sino", "proj"} /\ raised = NoExc

Queued(i) == [i |-> i, st |-> "queued"]

\* ------------------------------------------------------- host: set-up, loop
\* lines 223-229 / 299-307: the array the results go to: a new array, or in
\* proc_proj_parallel with file_type != 'double_fov' the source itself
\* mutant: the results always go to the source array
ResultArray_AlwaysInPlace == srcId

ResultArray ==
    IF phase = "sino" THEN "sres"
    ELSE IF cfg.doubleFov THEN "pres" ELSE srcId

\* lines 219-250 / 295-320: the result array and the buffers
Alloc ==
    /\ InPipeline /\ pc = "alloc"
    /\ LET newDst == ResultArray
       IN /\ dstId' = newDst
          /\ \E v \in (IF IsZarr THEN UninitValues ELSE {0}) :
                heap' = IF newDst = srcId THEN heap
                        ELSE [heap EXCEPT ![newDst] = FilledArray(cfg, v)]
    /\ inGpu' = RoleSlots(cfg, phase)
    /\ inPin' = IF IsZarr THEN [r \in AllRoles |-> <<>>] ELSE RoleSlots(cfg, phase)
    /\ outGpu' = ZeroSlots(cfg, phase)
    /\ outPin' = IF IsZarr THEN <<>> ELSE ZeroSlots(cfg, phase)
    /\ k' = 0
    /\ pc' = "progress"
    /\ issued' = <<>> /\ completed' = {} /\ flushed' = <<>> /\ progress' = <<>>
    /\ UNCHANGED <<cfg, phase, srcId, chan, hostOp, err, raised, returned, backprojArg,
                   procs, joined, firstResult>>

\* lines 255 / 324: the total handed to printProgressBar, nzchunk+1 / ntchunk+1
\* mutant: the total is the chunk count
ProgressTotal_ChunkCount == NChunk

ProgressTotal == NChunk + 1

\* lines 254-255 / 324: utils.printProgressBar(k, nchunk+1, ...), the first
\* statement of the loop body
Progress ==
    /\ InPipeline /\ pc = "progress"
    /\ progress' = Append(progress, <<k, ProgressTotal>>)
    /\ pc' = "compute"
    /\ UNCHANGED <<cfg, phase, k, heap, srcId, dstId, inGpu, outGpu, inPin, outPin,
                   chan, hostOp, err, raised, issued, completed, flushed,
                   returned, backprojArg,
                   procs, joined, firstResult>>

\* lines 257-260 / 325-328: the stage function on stream2
EnqCompute ==
    /\ InPipeline /\ pc = "compute"
    /\ IF ComputeDue(k)
       THEN /\ chan' = [chan EXCEPT !["Compute"] = Append(@, Queued(ComputeChunk(k)))]
            /\ issued' = Append(issued, <<"Compute", ComputeChunk(k), k, Slot(ComputeChunk(k))>>)
       ELSE UNCHANGED <<chan, issued>>
    /\ pc' = "store"
    /\ UNCHANGED <<cfg, phase, k, heap, srcId, dstId, inGpu, outGpu, inPin, outPin,
                   hostOp, err, raised, completed, flushed, progress,
                   returned, backprojArg,
                   procs, joined, firstResult>>

\* line 264: zarr checks the value's shape against the selection's: the whole
\* slot (ncz lines) fits the range of chunk i only when the chunk is full
StoreShapeOk(i) ==
    ~(IsZarr /\ phase = "sino")
    \/ ChunkLength(cfg, phase, i) = ChunkStride(cfg, phase)

\* lines 261-266 / 329-334: the flush of the output slot on stream3
EnqStore ==
    /\ InPipeline /\ pc = "store"
    /\ IF StoreDue(k)
       THEN /\ StoreShapeOk(StoreChunk(k))
            /\ chan' = [chan EXCEPT !["Store"] = Append(@, Queued(StoreChunk(k)))]
            /\ issued' = Append(issued, <<"Store", StoreChunk(k), k, Slot(StoreChunk(k))>>)
       ELSE UNCHANGED <<chan, issued>>
    /\ pc' = "load"
    /\ UNCHANGED <<cfg, phase, k, heap, srcId, dstId, inGpu, outGpu, inPin, outPin,
                   hostOp, err, raised, completed, flushed, progress,
                   returned, backprojArg,
                   procs, joined, firstResult>>

\* an exception leaves the pipeline function: the code catches nothing and adds
\* nothing, so the caller sees the library's exception, which names neither the
\* chunk nor the stream
Exception(kind) == [exc |-> kind, chunk |-> -1, channel |-> "none"]

\* line 264, chunk shorter than the slot: zarr's __setitem__ raises ValueError
StoreShapeError ==
    /\ InPipeline /\ pc = "store"
    /\ StoreDue(k) /\ ~StoreShapeOk(StoreChunk(k))
    /\ err' = [ch |-> "Store", i |-> StoreChunk(k), k |-> k]
    /\ raised' = Exception("ValueError")
    /\ pc' = "raised"
    /\ UNCHANGED <<cfg, phase, k, heap, srcId, dstId, inGpu, outGpu, inPin, outPin,
                   chan, hostOp, issued, completed, flushed, progress,
                   returned, backprojArg,
                   procs, joined, firstResult>>

\* lines 272-274: cupy's slot assignment broadcasts the chunk read from the
\* store to the slot's shape: possible when the chunk is full or one line long
LoadShapeOk(i) ==
    ~(IsZarr /\ phase = "sino")
    \/ ChunkLength(cfg, phase, i) \in {ChunkStride(cfg, phase), 1}

\* line 339: the lines of the slot selected by
\* data_gpu[k%2][ncproj*k : ncproj*k+ltchunk[k]] (a slice is clipped to the slot)
LoadView(i) ==
    { j \in 0 .. ChunkStride(cfg, phase) - 1 :
        /\ ChunkStart(cfg, phase, i) <= j
        /\ j < ChunkStart(cfg, phase, i) + ChunkLength(cfg, phase, i) }

\* line 339: whether the view of the slot has the shape of the chunk
LoadViewOk(i) ==
    ~(IsZarr /\ phase = "proj")
    \/ Cardinality(LoadView(i)) = ChunkLength(cfg, phase, i)

\* lines 276-278 / 341, in-memory mode: utils.copy of the chunk into the
\* pinned slot starts (the host is inside the copy until LoadHostEnd)
LoadHostBegin ==
    /\ InPipeline /\ pc = "load"
    /\ LoadDue(k) /\ ~IsZarr
    /\ hostOp' = [kind |-> "fill", i |-> LoadChunk(k)]
    /\ pc' = "load2"
    /\ UNCHANGED <<cfg, phase, k, heap, srcId, dstId, inGpu, outGpu, inPin, outPin,
                   chan, err, raised, issued, completed, flushed, progress,
                   returned, backprojArg,
                   procs, joined, firstResult>>

\* the pinned slot of role r after utils.copy(data[range], pinned[k%2, :len])
PinnedFill(r, kk) ==
    [inPin[r] EXCEPT ![Slot(LoadChunk(kk))] =
        SetLeading(@, ChunkLength(cfg, phase, LoadChunk(kk)),
                   ReadSlice(heap[SrcOf(r)], Axis(phase),
                             ChunkStart(cfg, phase, LoadChunk(kk)),
                             ChunkLength(cfg, phase, LoadChunk(kk))))]

\* lines 276-281 / 341-342, in-memory mode: the copy is done, .set() of the
\* pinned slot is enqueued on stream1
LoadHostEnd ==
    /\ InPipeline /\ pc = "load2"
    /\ inPin' = [r \in AllRoles |-> IF r \in Roles(phase) THEN PinnedFill(r, k) ELSE inPin[r]]
    /\ chan' = [chan EXCEPT !["Load"] = Append(@, Queued(LoadChunk(k)))]
    /\ issued' = Append(issued, <<"Load", LoadChunk(k), k, Slot(LoadChunk(k))>>)
    /\ hostOp' = NoHostOp
    /\ pc' = "sync3"
    /\ UNCHANGED <<cfg, phase, k, heap, srcId, dstId, inGpu, outGpu, outPin,
                   err, raised, completed, flushed, progress, returned, backprojArg,
                   procs, joined, firstResult>>

\* lines 272-274 / 339, out-of-core mode: the chunk goes from the store to the
\* device slot on stream1.  A view of the wrong shape (line 339, k >= 1) makes
\* utils.copy either raise or copy nothing; this is the branch that copies nothing
EnqLoadZarr ==
    /\ InPipeline /\ pc = "load"
    /\ LoadDue(k) /\ IsZarr /\ LoadShapeOk(LoadChunk(k))
    /\ chan' = [chan EXCEPT !["Load"] = Append(@, Queued(LoadChunk(k)))]
    /\ issued' = Append(issued, <<"Load", LoadChunk(k), k, Slot(LoadChunk(k))>>)
    /\ pc' = "sync3"
    /\ UNCHANGED <<cfg, phase, k, heap, srcId, dstId, inGpu, outGpu, inPin, outPin,
                   hostOp, err, raised, completed, flushed, progress,
                   returned, backprojArg,
                   procs, joined, firstResult>>

\* lines 272 / 339: the assignment cannot be broadcast (ValueError), or
\* utils.copy raises on the mismatched view
LoadShapeError ==
    /\ InPipeline /\ pc = "load"
    /\ LoadDue(k) /\ IsZarr
    /\ ~LoadShapeOk(LoadChunk(k)) \/ ~LoadViewOk(LoadChunk(k))
    /\ err' = [ch |-> "Load", i |-> LoadChunk(k), k |-> k]
    /\ raised' = Exception("ValueError")
    /\ pc' = "raised"
    /\ UNCHANGED <<cfg, phase, k, heap, srcId, dstId, inGpu, outGpu, inPin, outPin,
                   chan, hostOp, issued, completed, flushed, progress,
                   returned, backprojArg,
                   procs, joined, firstResult>>

\* line 268 false: the last two iterations load nothing
SkipLoad ==
    /\ InPipeline /\ pc = "load"
    /\ ~LoadDue(k)
    /\ pc' = "sync3"
    /\ UNCHANGED <<cfg, phase, k, heap, srcId, dstId, inGpu, outGpu, inPin, outPin,
                   chan, hostOp, err, raised, issued, completed, flushed, progress,
                   returned, backprojArg,
                   procs, joined, firstResult>>

\* mutant: synchronize() returns without waiting for the stream's work
Synced_NoWait(ch) == err.ch # ch

\* mutant: synchronize() returns although an operation of the stream failed
Synced_IgnoreErr(ch) == chan[ch] = <<>>

\* mutant: stream3.synchronize() returns although the Store failed
Synced_IgnoreStoreErr(ch) == chan[ch] = <<>> /\ (ch # "Store" => err.ch # ch)

\* stream.synchronize(): returns once the stream's work is complete; a failed
\* operation of that stream makes it raise instead (RaiseAsync)
Synced(ch) == chan[ch] = <<>> /\ err.ch # ch

\* lines 282 / 343: self.stream3.synchronize()
Sync3 ==
    /\ InPipeline /\ pc = "sync3"
    /\ Synced("Store")
    /\ pc' = "copy"
    /\ UNCHANGED <<cfg, phase, k, heap, srcId, dstId, inGpu, outGpu, inPin, outPin,
                   chan, hostOp, err, raised, issued, completed, flushed, progress,
                   returned, backprojArg,
                   procs, joined, firstResult>>

\* lines 283-285 / 344-345: the host copy runs in in-memory mode from iteration 2 on
\* mutant: the host copy starts one iteration early
HostCopyDue_Early(kk) == kk > 0 /\ ~IsZarr

HostCopyDue(kk) == kk > 1 /\ ~IsZarr

\* lines 286 / 346: utils.copy of the pinned output slot into res starts
HostCopyBegin ==
    /\ InPipeline /\ pc = "copy"
    /\ HostCopyDue(k)
    /\ hostOp' = [kind |-> "flush", i |-> StoreChunk(k)]
    /\ pc' = "copy2"
    /\ UNCHANGED <<cfg, phase, k, heap, srcId, dstId, inGpu, outGpu, inPin, outPin,
                   chan, err, raised, issued, completed, flushed, progress,
                   returned, backprojArg,
                   procs, joined, firstResult>>

\* a write of n lines at lo into the destination in iteration k, as recorded in `flushed`
Flush(i, lo, n, by) == [i |-> i, lo |-> lo, n |-> n, by |-> by, k |-> k]

\* lines 286 / 346: the number of lines of the pinned output slot the host
\* copies into the destination, rec_pinned[(k-2) % 2, :, :lzchunk[k-2]]
\* mutant: the whole slot is copied
FlushLength_WholeSlot(i) == ChunkStride(cfg, phase)

FlushLength(i) == ChunkLength(cfg, phase, i)

\* lines 286 / 346: res[range of chunk i] = rec_pinned[i % 2, :len_i]
HostCopyEnd ==
    /\ InPipeline /\ pc = "copy2"
    /\ LET i == hostOp.i
           lo == ChunkStart(cfg, phase, i)
           n == FlushLength(i)
       IN /\ heap' = [heap EXCEPT ![dstId] =
                        WriteSlice(@, Axis(phase), lo, n, outPin[Slot(i)])]
          /\ flushed' = Append(flushed, Flush(i, lo, n, "host"))
    /\ hostOp' = NoHostOp
    /\ pc' = "sync1"
    /\ UNCHANGED <<cfg, phase, k, srcId, dstId, inGpu, outGpu, inPin, outPin,
                   chan, err, raised, issued, completed, progress,
                   returned, backprojArg,
                   procs, joined, firstResult>>

\* lines 283-285 false: nothing to copy
SkipHostCopy ==
    /\ InPipeline /\ pc = "copy"
    /\ ~HostCopyDue(k)
    /\ pc' = "sync1"
    /\ UNCHANGED <<cfg, phase, k, heap, srcId, dstId, inGpu, outGpu, inPin, outPin,
                   chan, hostOp, err, raised, issued, completed, flushed, progress,
                   returned, backprojArg,
                   procs, joined, firstResult>>

\* lines 287 / 347: self.stream1.synchronize()
Sync1 ==
    /\ InPipeline /\ pc = "sync1"
    /\ Synced("Load")
    /\ pc' = "sync2"
    /\ UNCHANGED <<cfg, phase, k, heap, srcId, dstId, inGpu, outGpu, inPin, outPin,
                   chan, hostOp, err, raised, issued, completed, flushed, progress,
                   returned, backprojArg,
                   procs, joined, firstResult>>

\* lines 253 / 323: for k in range(nchunk + 2)
\* mutant: one drain iteration instead of two
LoopBound_OneDrain == NChunk + 1

LoopBound == NChunk + 2

\* lines 288 / 348: self.stream2.synchronize(), then the next iteration or the
\* end of the loop
Sync2 ==
    /\ InPipeline /\ pc = "sync2"
    /\ Synced("Compute")
    /\ IF k + 1 < LoopBound
       THEN k' = k + 1 /\ pc' = "progress"
       ELSE k' = k /\ pc' = "return"
    /\ UNCHANGED <<cfg, phase, heap, srcId, dstId, inGpu, outGpu, inPin, outPin,
                   chan, hostOp, err, raised, issued, completed, flushed, progress,
                   returned, backprojArg,
                   procs, joined, firstResult>>

\* the host's positions that call into the CUDA runtime: enqueueing on a stream
\* and synchronizing one
AtCudaCall ==
    \/ pc = "store" /\ StoreDue(k)
    \/ pc = "load" /\ LoadDue(k) /\ IsZarr
    \/ pc = "load2"
    \/ pc \in {"sync3", "sync1", "sync2"}

\* a failed stream operation surfaces at a later CUDA call of the host (at the
\* latest at that stream's synchronize) as an exception, which nothing catches
RaiseAsync ==
    /\ InPipeline /\ err # NoErr
    /\ AtCudaCall
    /\ raised' = Exception("CUDARuntimeError")
    /\ pc' = "raised"
    /\ IF pc = "load2"
       THEN /\ inPin' = [r \in AllRoles |-> IF r \in Roles(phase) THEN PinnedFill(r, k) ELSE inPin[r]]
            /\ hostOp' = NoHostOp
       ELSE UNCHANGED <<inPin, hostOp>>
    /\ UNCHANGED <<cfg, phase, k, heap, srcId, dstId, inGpu, outGpu, outPin,
                   chan, err, issued, completed, flushed, progress,
                   returned, backprojArg,
                   procs, joined, firstResult>>

\* lines 289 / 349: return res
Return ==
    /\ InPipeline /\ pc = "return"
    /\ returned' = dstId
    /\ pc' = "ret"
    /\ UNCHANGED <<cfg, phase, k, heap, srcId, dstId, inGpu, outGpu, inPin, outPin,
                   chan, hostOp, err, raised, issued, completed, flushed, progress,
                   backprojArg,
                   procs, joined, firstResult>>

\* the caller of a pipeline function calls it a second time on the same
\* dataset with the same chunk plan; the destination the first call left is
\* kept for comparison
Rerun ==
    /\ cfg.caller \in {"sino", "proj"} /\ pc = "ret" /\ raised = NoExc
    /\ ~firstResult.done
    /\ firstResult' = [done |-> TRUE, val |-> heap[dstId]]
    /\ heap' = InitHeap(cfg)
    /\ returned' = "none"
    /\ k' = 0
    /\ pc' = "alloc"
    /\ UNCHANGED <<cfg, phase, srcId, dstId, inGpu, outGpu, inPin, outPin,
                   chan, hostOp, err, raised, issued, completed, flushed, progress,
                   backprojArg, procs, joined>>

\* ------------------------------------------------------------ bulk reader
\* lines 179 / 203: the number of projections to read,
\* args.end_proj - args.start_proj
ReadExtent(c) == c.nread

\* lines 175 / 199: lchunk = int(np.ceil(data.shape[0] / nthreads)), where
\* data.shape[0] is shape_data_full[0] = cl_conf.nproj
ReadChunk(c) == CeilDiv(c.nproj, c.nthreads)

Min(a, b) == IF a < b THEN a ELSE b

\* lines 178 / 202: st_proj = k * lchunk
StProj(c, kk) == kk * ReadChunk(c)

\* lines 179 / 203: end_proj = min((k + 1) * lchunk, end_proj - start_proj)
EndProj(c, kk) == Min((kk + 1) * ReadChunk(c), ReadExtent(c))

InReader == phase = "read" /\ raised = NoExc

\* lines 165 / 196: flat, dark = self.cl_reader.read_flat_dark(st_n, end_n)
ReadCalib ==
    /\ InReader /\ pc = "calib"
    /\ heap' = [heap EXCEPT !["dark"] = CalibArray(cfg, 1), !["flat"] = CalibArray(cfg, 2)]
    /\ pc' = "rdalloc"
    /\ UNCHANGED <<cfg, phase, k, srcId, dstId, inGpu, outGpu, inPin, outPin,
                   chan, hostOp, err, raised, issued, completed, flushed,
                   progress, returned, backprojArg, procs, joined, firstResult>>

\* line 198: data = np.zeros([*self.shape_data_full], ...)
ReadAlloc ==
    /\ InReader /\ pc = "rdalloc" /\ ~IsZarr
    /\ heap' = [heap EXCEPT !["raw"] = FilledArray(cfg, 0)]
    /\ k' = 0
    /\ pc' = "spawn"
    /\ UNCHANGED <<cfg, phase, srcId, dstId, inGpu, outGpu, inPin, outPin, chan,
                   hostOp, err, raised, issued, completed, flushed, progress,
                   returned, backprojArg, procs, joined, firstResult>>

\* line 174: zarr.empty(chunks=..., ...) is called without the shape it
\* requires: TypeError, before any worker thread exists
ReadAllocError ==
    /\ InReader /\ pc = "rdalloc" /\ IsZarr
    /\ raised' = Exception("TypeError")
    /\ pc' = "raised"
    /\ UNCHANGED <<cfg, phase, k, heap, srcId, dstId, inGpu, outGpu, inPin,
                   outPin, chan, hostOp, err, issued, completed, flushed,
                   progress, returned, backprojArg, procs, joined, firstResult>>

\* lines 201-209: one iteration of the loop that starts the worker threads
Spawn ==
    /\ InReader /\ pc = "spawn"
    /\ procs' = IF StProj(cfg, k) >= EndProj(cfg, k) THEN procs
                ELSE Append(procs, [st |-> StProj(cfg, k), en |-> EndProj(cfg, k),
                                    state |-> "running"])
    /\ IF k + 1 < cfg.nthreads
       THEN k' = k + 1 /\ pc' = "spawn"
       ELSE k' = k /\ pc' = "join"
    /\ UNCHANGED <<cfg, phase, heap, srcId, dstId, inGpu, outGpu, inPin, outPin,
                   chan, hostOp, err, raised, issued, completed, flushed,
                   progress, returned, backprojArg, joined, firstResult>>

\* a worker thread (read_proj_chunk) reads its projections into data[st:end]
\* and terminates; the slice data[st:end] is clipped to the buffer
WorkerDone(w) ==
    /\ procs[w].state = "running"
    /\ heap' = [heap EXCEPT !["raw"] =
                  WriteSlice(@, "a", procs[w].st, Min(procs[w].en, cfg.nproj) - procs[w].st,
                             ReadSlice(RawArray(cfg), "a", procs[w].st,
                                       Min(procs[w].en, cfg.nproj) - procs[w].st))]
    /\ procs' = [procs EXCEPT ![w].state = "done"]
    /\ UNCHANGED <<cfg, phase, pc, k, srcId, dstId, inGpu, outGpu, inPin, outPin,
                   chan, hostOp, err, raised, issued, completed, flushed,
                   progress, returned, backprojArg, joined, firstResult>>

\* a worker thread fails: the exception ends the thread (threading reports it
\* on stderr) and is not handed to the thread that joins it
WorkerFail(w) ==
    /\ procs[w].state = "running"
    /\ procs' = [procs EXCEPT ![w].state = "failed"]
    /\ UNCHANGED <<cfg, phase, pc, k, heap, srcId, dstId, inGpu, outGpu, inPin,
                   outPin, chan, hostOp, err, raised, issued, completed, flushed,
                   progress, returned, backprojArg, joined, firstResult>>

\* lines 186 / 210: for proc in procs
\* mutant: the last worker started is not joined
JoinBound_SkipLast == Len(procs) - 1

JoinBound == Len(procs)

\* lines 187 / 211: proc.join() returns once the thread has terminated
Join ==
    /\ InReader /\ pc = "join"
    /\ joined < JoinBound
    /\ procs[joined + 1].state # "running"
    /\ joined' = joined + 1
    /\ UNCHANGED <<cfg, phase, pc, k, heap, srcId, dstId, inGpu, outGpu, inPin,
                   outPin, chan, hostOp, err, raised, issued, completed, flushed,
                   progress, returned, backprojArg, procs, firstResult>>

\* the stage recon_steps_all enters after the bulk read (line 144)
AfterRead(c) ==
    IF c.caller = "read" THEN "done"
    ELSE IF c.preproc THEN "sino" ELSE "backproj"

\* lines 189 / 213: return data, flat, dark
ReadReturn ==
    /\ InReader /\ pc = "join"
    /\ joined >= JoinBound
    /\ phase' = AfterRead(cfg)
    /\ pc' = CASE AfterRead(cfg) = "sino" -> "alloc"
               [] AfterRead(cfg) = "backproj" -> "call"
               [] OTHER -> "end"
    /\ k' = 0
    /\ UNCHANGED <<cfg, heap, srcId, dstId, inGpu, outGpu, inPin, outPin, chan,
                   hostOp, err, raised, issued, completed, flushed, progress,
                   returned, backprojArg, procs, joined, firstResult>>

\* recon_steps_all, lines 147 and 151: the array handed to proc_proj_parallel
\* is the one proc_sino_parallel returned (data is rebound)
\* mutant: the projection pipeline is handed the bulk-read buffer
ProjSource_BulkBuffer == "raw"

ProjSource == returned

\* recon_steps_all, lines 147-151: data = proc_sino_parallel(...), then
\* proc_proj_parallel(data)
CallProj ==
    /\ cfg.caller = "recon" /\ phase = "sino" /\ pc = "ret" /\ raised = NoExc
    /\ srcId' = ProjSource
    /\ phase' = "proj"
    /\ pc' = "alloc"
    /\ UNCHANGED <<cfg, k, heap, dstId, inGpu, outGpu, inPin, outPin,
                   chan, hostOp, err, raised, issued, completed, flushed, progress,
                   returned, backprojArg,
                   procs, joined, firstResult>>

\* recon_steps_all, lines 151-155: data = proc_proj_parallel(data), or the
\* bulk-read data when pre_processing is off; then cl_backproj.rec_fun(data)
CallBackproj ==
    /\ cfg.caller = "recon" /\ raised = NoExc
    /\ \/ phase = "proj" /\ pc = "ret" /\ backprojArg' = returned
       \/ phase = "backproj" /\ pc = "call" /\ backprojArg' = srcId
    /\ phase' = "done"
    /\ pc' = "end"
    /\ UNCHANGED <<cfg, k, heap, srcId, dstId, inGpu, outGpu, inPin, outPin,
                   chan, hostOp, err, raised, issued, completed, flushed, progress,
                   returned,
                   procs, joined, firstResult>>

\* ---------------------------------------------------------------- channels
\* the operation at the head of a stream's queue is executing
Running(ch) == chan[ch] # <<>> /\ Head(chan[ch]).st = "running"

\* a stream starts the operation at the head of its queue
Start(ch) ==
    /\ chan[ch] # <<>> /\ Head(chan[ch]).st = "queued"
    /\ chan' = [chan EXCEPT ![ch][1].st = "running"]
    /\ UNCHANGED <<cfg, phase, pc, k, heap, srcId, dstId, inGpu, outGpu, inPin, outPin,
                   hostOp, err, raised, issued, completed, flushed, progress,
                   returned, backprojArg,
                   procs, joined, firstResult>>

\* lines 279-281 / 342, in-memory mode: item_gpu[role][p].set(item_pinned[role][p])
LoadFromPinned(r, i) == [inGpu[r] EXCEPT ![Slot(i)] = inPin[r][Slot(i)]]

\* lines 272-274, out-of-core sinogram pipeline: item_gpu[role][p] = data[:, range],
\* broadcast to the slot's shape when the chunk is one line long
LoadFromStoreSino(r, i) ==
    LET rows == ReadSlice(heap[SrcOf(r)], Axis(phase), ChunkStart(cfg, phase, i),
                          ChunkLength(cfg, phase, i))
    IN [inGpu[r] EXCEPT ![Slot(i)] =
           [j \in DOMAIN @ |->
               IF ChunkLength(cfg, phase, i) = ChunkStride(cfg, phase) THEN rows[j] ELSE rows[0]]]

\* line 339, out-of-core projection pipeline: utils.copy(data[range], view of the
\* slot); with a view of another shape nothing is copied
LoadFromStoreProj(r, i) ==
    LET rows == ReadSlice(heap[SrcOf(r)], Axis(phase), ChunkStart(cfg, phase, i),
                          ChunkLength(cfg, phase, i))
    IN [inGpu[r] EXCEPT ![Slot(i)] =
           [j \in DOMAIN @ |->
               IF LoadViewOk(i) /\ j \in LoadView(i)
               THEN rows[j - ChunkStart(cfg, phase, i)] ELSE @[j]]]

\* the input slots after the Load of chunk i
LoadEffect(i) ==
    [r \in AllRoles |->
        IF r \notin Roles(phase) THEN inGpu[r]
        ELSE IF ~IsZarr THEN LoadFromPinned(r, i)
        ELSE IF phase = "sino" THEN LoadFromStoreSino(r, i)
        ELSE LoadFromStoreProj(r, i)]

\* stream1 completes the Load of its chunk
FinishLoad ==
    /\ Running("Load")
    /\ inGpu' = LoadEffect(Head(chan["Load"]).i)
    /\ chan' = [chan EXCEPT !["Load"] = Tail(@)]
    /\ completed' = completed \cup {<<"Load", Head(chan["Load"]).i>>}
    /\ UNCHANGED <<cfg, phase, pc, k, heap, srcId, dstId, outGpu, inPin, outPin,
                   hostOp, err, raised, issued, flushed, progress, returned, backprojArg,
                   procs, joined, firstResult>>

\* lines 259-260 / 327-328: proc_sino / proc_proj from the input slot into the
\* output slot of the same parity
ComputeEffect(i) ==
    [outGpu EXCEPT ![Slot(i)] = StageSlot(cfg.stage, inGpu["data"][Slot(i)])]

\* stream2 completes the stage function of its chunk
FinishCompute ==
    /\ Running("Compute")
    /\ outGpu' = ComputeEffect(Head(chan["Compute"]).i)
    /\ chan' = [chan EXCEPT !["Compute"] = Tail(@)]
    /\ completed' = completed \cup {<<"Compute", Head(chan["Compute"]).i>>}
    /\ UNCHANGED <<cfg, phase, pc, k, heap, srcId, dstId, inGpu, inPin, outPin,
                   hostOp, err, raised, issued, flushed, progress, returned, backprojArg,
                   procs, joined, firstResult>>

\* lines 266 / 334, in-memory mode: rec_gpu[p].get(out=rec_pinned[p])
StoreToPinned(i) == [outPin EXCEPT ![Slot(i)] = outGpu[Slot(i)]]

\* line 264, out-of-core sinogram pipeline: res[:, range] = rec_gpu[p]
StoreToStore(i) ==
    [heap EXCEPT ![dstId] =
        WriteSlice(@, Axis(phase), ChunkStart(cfg, phase, i), ChunkLength(cfg, phase, i),
                   outGpu[Slot(i)])]

\* stream3 completes the Store of its chunk.  Line 332 (out-of-core projection
\* pipeline) copies into res[range], which a zarr array evaluates to a fresh
\* array holding a copy of the range: the store itself is not written
FinishStore ==
    /\ Running("Store")
    /\ LET i == Head(chan["Store"]).i
       IN /\ outPin' = IF IsZarr THEN outPin ELSE StoreToPinned(i)
          /\ heap' = IF IsZarr /\ phase = "sino" THEN StoreToStore(i) ELSE heap
          /\ flushed' = IF IsZarr /\ phase = "sino"
                        THEN Append(flushed, Flush(i, ChunkStart(cfg, phase, i),
                                                   ChunkLength(cfg, phase, i), "Store"))
                        ELSE flushed
          /\ completed' = completed \cup {<<"Store", i>>}
    /\ chan' = [chan EXCEPT !["Store"] = Tail(@)]
    /\ UNCHANGED <<cfg, phase, pc, k, srcId, dstId, inGpu, outGpu, inPin,
                   hostOp, err, raised, issued, progress, returned, backprojArg,
                   procs, joined, firstResult>>

\* a running operation fails on its stream (DeviceError / StorageError); the
\* host learns of it at a later CUDA call
Fail(ch) ==
    /\ Running(ch)
    /\ err = NoErr /\ raised = NoExc
    /\ err' = [ch |-> ch, i |-> Head(chan[ch]).i, k |-> k]
    /\ chan' = [chan EXCEPT ![ch] = Tail(@)]
    /\ UNCHANGED <<cfg, phase, pc, k, heap, srcId, dstId, inGpu, outGpu, inPin, outPin,
                   hostOp, raised, issued, completed, flushed, progress,
                   returned, backprojArg,
                   procs, joined, firstResult>>

Next ==
    \/ Alloc \/ Progress \/ EnqCompute \/ EnqStore \/ StoreShapeError
    \/ LoadHostBegin \/ LoadHostEnd \/ EnqLoadZarr \/ LoadShapeError \/ SkipLoad
    \/ Sync3 \/ HostCopyBegin \/ HostCopyEnd \/ SkipHostCopy \/ Sync1 \/ Sync2
    \/ RaiseAsync \/ Return \/ Rerun \/ CallProj \/ CallBackproj
    \/ ReadCalib \/ ReadAlloc \/ ReadAllocError \/ Spawn \/ Join \/ ReadReturn
    \/ \E w \in 1 .. Len(procs) : WorkerDone(w)
    \/ \E w \in 1 .. Len(procs) : WorkerFail(w)
    \/ \E ch \in Channels : Start(ch)
    \/ FinishLoad \/ FinishCompute \/ FinishStore
    \/ \E ch \in Channels : Fail(ch)

Spec == Init /\ [][Next]_vars

\* ------------------------------------------------------------ buffer accesses
\* the buffer slots an operation reads, as <<buffer, parity>>:
\*   Load    .set(item_pinned[p])             (lines 279-281 / 342), in-memory mode
\*   Compute proc_sino(item_gpu[..][p], ..)   (lines 259-260 / 327-328)
\*   Store   rec_gpu[p].get / rec_gpu[p]      (lines 264-266 / 332-334)
\*   flush   utils.copy(rec_pinned[p, ..], ..) (lines 286 / 346)
SlotReads(o) ==
    CASE o.who = "Load" -> IF IsZarr THEN {} ELSE {<<"inPin", Slot(o.i)>>}
      [] o.who = "Compute" -> {<<"inGpu", Slot(o.i)>>}
      [] o.who = "Store" -> {<<"outGpu", Slot(o.i)>>}
      [] o.who = "flush" -> {<<"outPin", Slot(o.i)>>}
      [] OTHER -> {}

\* the buffer slots an operation writes:
\*   fill    utils.copy(.., item_pinned[..][p, ..]) (lines 276-278 / 341)
\*   Load    item_gpu[..][p]                        (lines 272-274, 279-281 / 339, 342)
\*   Compute rec_gpu[p]                             (lines 260 / 328)
\*   Store   rec_pinned[p]                          (lines 266 / 334), in-memory mode
SlotWrites(o) ==
    CASE o.who = "fill" -> {<<"inPin", Slot(o.i)>>}
      [] o.who = "Load" -> {<<"inGpu", Slot(o.i)>>}
      [] o.who = "Compute" -> {<<"outGpu", Slot(o.i)>>}
      [] o.who = "Store" -> IF IsZarr THEN {} ELSE {<<"outPin", Slot(o.i)>>}
      [] OTHER -> {}

\* the lines of its buffer slot (indices along the chunked axis) an operation
\* on chunk i accesses:
\*   fill    item_pinned[..][k % 2, :, :lzchunk[k]]     (lines 276-278 / 341)
\*   Load    .set(item_pinned[..][k % 2]), whole slot  (lines 279-281 / 342);
\*           item_gpu[..][k % 2] = .., whole slot       (lines 272-274);
\*           data_gpu[k%2][ncproj*k : ..]               (line 339)
\*   Compute proc_sino(item_gpu[..][p], .., rec_gpu[p]), whole slots (lines 259-260 / 327-328)
\*   Store   rec_gpu[p].get(out=rec_pinned[p]), whole slot (lines 266 / 334);
\*           res[..] = rec_gpu[p], whole slot           (line 264);
\*           rec_gpu[p, :ltchunk[k-2]]                  (line 332)
\*   flush   rec_pinned[p, :, :lzchunk[k-2]]            (lines 286 / 346)
SlotLines(o) ==
    CASE o.who = "fill" -> 0 .. (ChunkLength(cfg, phase, o.i) - 1)
      [] o.who = "Load" -> IF IsZarr /\ phase = "proj" THEN LoadView(o.i)
                           ELSE 0 .. (ChunkStride(cfg, phase) - 1)
      [] o.who = "Compute" -> 0 .. (ChunkStride(cfg, phase) - 1)
      [] o.who = "Store" -> IF IsZarr /\ phase = "proj"
                            THEN 0 .. (ChunkLength(cfg, phase, o.i) - 1)
                            ELSE 0 .. (ChunkStride(cfg, phase) - 1)
      [] o.who = "flush" -> 0 .. (FlushLength(o.i) - 1)
      [] OTHER -> {}

\* the ranges of the full-size arrays an operation reads, as <<object, index
\* along the chunked axis>>:
\*   fill   utils.copy(data[range], ..)       (lines 276-278 / 341), in-memory mode
\*   Load   data[range], dark[..], flat[..]   (lines 272-274 / 339), out-of-core mode
\*   Store  res[range] evaluated as an array  (line 332), out-of-core projection pipeline
ArrayReads(o) ==
    CASE o.who = "fill" \/ (o.who = "Load" /\ IsZarr) ->
            { <<SrcOf(r), x>> : r \in Roles(phase), x \in ChunkRange(cfg, phase, o.i) }
      [] o.who = "Store" /\ IsZarr /\ phase = "proj" ->
            { <<dstId, x>> : x \in ChunkRange(cfg, phase, o.i) }
      [] OTHER -> {}

\* the ranges of the full-size arrays an operation writes:
\*   Store  res[:, range] = rec_gpu[p]        (line 264), out-of-core sinogram pipeline
\*   flush  utils.copy(.., res[range])        (lines 286 / 346), in-memory mode
ArrayWrites(o) ==
    CASE o.who = "flush" \/ (o.who = "Store" /\ IsZarr /\ phase = "sino") ->
            { <<dstId, x>> : x \in ChunkRange(cfg, phase, o.i) }
      [] OTHER -> {}

\* two operations touch a common entry of an array and at least one writes it
ArrayConflict(o1, o2) ==
    \/ ArrayWrites(o1) \cap (ArrayReads(o2) \cup ArrayWrites(o2)) # {}
    \/ ArrayWrites(o2) \cap ArrayReads(o1) # {}

\* two operations touch a common slot and at least one of them writes it
SlotConflict(o1, o2) ==
    \/ SlotWrites(o1) \cap (SlotReads(o2) \cup SlotWrites(o2)) # {}
    \/ SlotWrites(o2) \cap SlotReads(o1) # {}

\* ------------------------------------------------------------ observations
\* the operations enqueued on the streams and not yet complete
ChanOps ==
    UNION { { [who |-> ch, i |-> chan[ch][n].i] : n \in 1 .. Len(chan[ch]) } : ch \in Channels }

\* the host copy in progress, if any
HostOps == IF hostOp = NoHostOp THEN {} ELSE { [who |-> hostOp.kind, i |-> hostOp.i] }

Outstanding == ChanOps \cup HostOps

\* the chunks with an operation of channel ch enqueued so far, in issue order
IssuedOn(ch) ==
    LET On(e) == e[1] = ch
        sel == SelectSeq(issued, On)
    IN [n \in 1 .. Len(sel) |-> sel[n][2]]

\* the run of the current pipeline function has returned
Returned == phase \in {"sino", "proj"} /\ pc = "ret"

\* <<0, 1, ..., n-1>>
Iota(n) == [j \in 1 .. n |-> j - 1]

\* the projections handed to worker w: st_proj .. end_proj - 1
HandedRows(w) == procs[w].st .. (procs[w].en - 1)

\* the bulk read has started all the workers it starts: its loop over
\* range(nthreads) is over, or the call has ended (returned or raised)
SpawnOver == FirstPhase(cfg) = "read" /\ (phase # "read" \/ pc \in {"join", "raised"})

\* the bulk read has returned its buffer
ReadReturned == FirstPhase(cfg) = "read" /\ phase # "read"

\* read_flat_dark has returned the calibration frames
CalibRead == heap["dark"] # <<>> /\ heap["flat"] # <<>>

\* every chunk of the running pipeline has been written to its destination
FlushedAll == { flushed[n].i : n \in 1 .. Len(flushed) } = 0 .. (NChunk - 1)

\* the leading n lines of a buffer slot: slot[:n] (slot[:, :n] in the sinogram pipeline)
Leading(slot, n) == [j \in 0 .. n - 1 |-> slot[j]]

\* the running pipeline works in place: res is data (line 300)
InPlace == phase = "proj" /\ pc # "alloc" /\ dstId = srcId

\* the chunks written to the destination so far
FlushedChunks == { flushed[n].i : n \in 1 .. Len(flushed) }

\* the buffer a completed bulk read leaves: zeros (line 198) with the
\* projections of every worker that finished read in
BulkBuffer ==
    [a \in 0 .. cfg.nproj - 1 |-> [z \in 0 .. cfg.nz - 1 |->
        IF \E w \in 1 .. Len(procs) : procs[w].state = "done" /\ a \in HandedRows(w)
        THEN RawArray(cfg)[a][z] ELSE 0]]

\* the contents of the running pipeline's source array when the run began: the
\* caller's dataset, or in a chained run the bulk-read buffer (which the
\* sinogram pipeline with the identity stage hands on unchanged)
SourceAtStart == IF FirstPhase(cfg) = "read" THEN BulkBuffer ELSE RawArray(cfg)

\* the dataset the first pipeline of the run was handed: the buffer the bulk
\* read returned (no pipeline writes it in a chained run), or the caller's dataset
SourceData == IF FirstPhase(cfg) = "read" THEN heap["raw"] ELSE RawArray(cfg)

\* ------------------------------------------------------------------ claims
\* C1: within a chunk the three stages never race on a slot: when Compute of
\* chunk i is executing (or has executed), the Load of chunk i has completed,
\* and when Store of chunk i is executing (or has executed), the Compute of
\* chunk i has completed.
C1_StageOrder ==
    /\ \A n \in 1 .. Len(chan["Compute"]) :
           chan["Compute"][n].st = "running" => <<"Load", chan["Compute"][n].i>> \in completed
    /\ \A n \in 1 .. Len(chan["Store"]) :
           chan["Store"][n].st = "running" => <<"Compute", chan["Store"][n].i>> \in completed
    /\ \A e \in completed :
           /\ e[1] = "Compute" => <<"Load", e[2]>> \in completed
           /\ e[1] = "Store" => <<"Compute", e[2]>> \in completed

\* C1 witness: all three streams execute at once, each on its own chunk
C1_Witness ==
    /\ Running("Load") /\ Running("Compute") /\ Running("Store")
    /\ Head(chan["Compute"]).i = Head(chan["Load"]).i - 1
    /\ Head(chan["Store"]).i = Head(chan["Load"]).i - 2

\* C2: slot-reuse safety: no two operations outstanding at the same time (on
\* two streams, on a stream and the host, or for two chunks i and i+2 of the
\* same parity) touch the same buffer slot with at least one of them writing.
C2_SlotReuseSafe ==
    \A o1 \in Outstanding : \A o2 \in Outstanding :
        (o1 # o2) => ~SlotConflict(o1, o2)

\* C2 witness: the slot of parity 0 is being re-filled for chunk 2 while the
\* other two streams still work on chunks 1 and 0
C2_Witness ==
    /\ [who |-> "Load", i |-> 2] \in Outstanding
    /\ [who |-> "Compute", i |-> 1] \in Outstanding
    /\ [who |-> "Store", i |-> 0] \in Outstanding
    /\ <<"Load", 0>> \in completed

\* C3: the Store channel is exercised once per chunk, in increasing order, and
\* a run that returns has executed the C+2 iterations 0 .. C+1 and has issued
\* exactly the C Stores of chunks 0 .. C-1.
C3_IterationsAndStores ==
    (phase \in {"sino", "proj"} /\ pc # "alloc") =>
        /\ \A n \in 1 .. Len(IssuedOn("Store")) : IssuedOn("Store")[n] = n - 1
        /\ Len(IssuedOn("Store")) <= NChunk
        /\ Returned =>
              /\ IssuedOn("Store") = Iota(NChunk)
              /\ k = NChunk + 1
              /\ Len(progress) = NChunk + 2
              /\ \A n \in 1 .. Len(progress) : progress[n][1] = n - 1

\* C3 witness: a run of three chunks, the last one shorter, has returned
C3_Witness ==
    /\ Returned /\ NChunk = 3 /\ raised = NoExc
    /\ ChunkLength(cfg, phase, NChunk - 1) < ChunkStride(cfg, phase)

\* C4: round trip in in-memory mode: after a run with the identity stage the
\* destination equals the source at every index, remainder chunk included.
C4_RoundTripInMemory ==
    (Returned /\ ~IsZarr /\ cfg.stage = "id") => heap[dstId] = SourceData

\* C4 witness: an in-memory sinogram run over chunks of lengths [3, 3, 2] into
\* a fresh destination has returned
C4_Witness ==
    /\ Returned /\ ~IsZarr /\ cfg.stage = "id" /\ phase = "sino" /\ dstId # srcId
    /\ NChunk = 3 /\ ChunkStride(cfg, phase) = 3 /\ ChunkLength(cfg, phase, 2) = 2
    /\ heap[dstId] = heap[srcId]

\* C5 (as claimed): round trip in out-of-core mode: a run with the identity
\* stage raises no error of its own and leaves the destination equal to the source.
C5_RoundTripOutOfCore ==
    (phase \in {"sino", "proj"} /\ IsZarr /\ cfg.stage = "id") =>
        /\ raised.exc # "ValueError"
        /\ Returned => heap[dstId] = RawArray(cfg)

\* the flushes that wrote index x of the destination's chunked axis
FlushesOf(x) == { n \in 1 .. Len(flushed) : x \in flushed[n].lo .. flushed[n].lo + flushed[n].n - 1 }

\* C6 (as claimed): the destination is written by the store step only, at
\* pairwise disjoint ranges, and after a completed run every index of the
\* chunked axis has been written exactly once.
C6_DestinationWrittenOnce ==
    (phase \in {"sino", "proj"} /\ pc # "alloc") =>
        /\ \A x \in 0 .. Extent(cfg, phase) - 1 : Cardinality(FlushesOf(x)) <= 1
        /\ Returned => \A x \in 0 .. Extent(cfg, phase) - 1 : Cardinality(FlushesOf(x)) = 1

\* C7: no two outstanding operations access overlapping ranges of one array
\* with one of them writing, and in every iteration the range read by the Load
\* is disjoint from the range written to the same array in that iteration
\* (the in-place projection pipeline included).
C7_NoOverlappingArrayAccess ==
    /\ \A o1 \in Outstanding : \A o2 \in Outstanding :
           (o1 # o2) => ~ArrayConflict(o1, o2)
    /\ (phase \in {"sino", "proj"} /\ pc # "alloc") =>
           \A n \in 1 .. Len(flushed) : \A m \in 1 .. Len(issued) :
               (issued[m][1] = "Load" /\ issued[m][3] = flushed[n].k) =>
                   \A r \in Roles(phase) :
                       SrcOf(r) = dstId =>
                           ChunkRange(cfg, phase, issued[m][2])
                             \cap (flushed[n].lo .. flushed[n].lo + flushed[n].n - 1) = {}

\* C7 witness: the in-place projection pipeline has loaded a chunk and written
\* another one to the same array within one iteration
C7_Witness ==
    /\ phase = "proj" /\ pc # "alloc" /\ srcId = dstId
    /\ \E n \in 1 .. Len(flushed) : \E m \in 1 .. Len(issued) :
           issued[m][1] = "Load" /\ issued[m][3] = flushed[n].k

\* C8: a failed channel operation aborts the run: nothing of a later iteration
\* is enqueued, the failed chunk is not enqueued again, the pipeline function
\* does not return, and recon_steps_all starts no later stage.
C8_FailureAborts ==
    (err # NoErr) =>
        /\ phase \in {"sino", "proj"}
        /\ k = err.k
        /\ pc \notin {"return", "ret", "end"}
        /\ \A n \in 1 .. Len(issued) : issued[n][3] <= err.k
        /\ Cardinality({ n \in 1 .. Len(issued) :
                           issued[n][1] = err.ch /\ issued[n][2] = err.i }) <= 1
        /\ backprojArg = "none"
        /\ returned = (IF cfg.caller = "recon" /\ phase = "proj" THEN srcId ELSE "none")

\* C8 witness: inside recon_steps_all the sinogram pipeline was aborted by a
\* failure in an iteration that is not the last one
C8_Witness ==
    /\ cfg.caller = "recon" /\ phase = "sino"
    /\ err # NoErr /\ raised # NoExc
    /\ err.k < NChunk + 1

\* C9: after a failed Store of chunk i no chunk with an index above i is
\* written to the destination.
C9_NoFlushAfterStoreFailure ==
    (err.ch = "Store") => \A n \in 1 .. Len(flushed) : flushed[n].i <= err.i

\* C9 witness: the Store of a chunk that is not the last one failed after an
\* earlier chunk had been flushed, and the run was aborted
C9_Witness ==
    /\ err.ch = "Store" /\ raised # NoExc
    /\ err.i + 1 < NChunk
    /\ flushed # <<>>

\* C10 (as claimed): the abort the caller sees names the failing chunk and the
\* failing channel.
C10_AbortNamesChunkAndChannel ==
    (raised # NoExc) => (raised.chunk = err.i /\ raised.channel = err.ch)

\* C11 (as claimed): the ranges handed to the worker threads by
\* read_data_parallel and by read_to_zarr are pairwise disjoint and their
\* union is exactly [0, E), for every worker count and extent.
C11_ReaderPartition ==
    SpawnOver =>
        /\ \A w1 \in 1 .. Len(procs) : \A w2 \in 1 .. Len(procs) :
               (w1 # w2) => HandedRows(w1) \cap HandedRows(w2) = {}
        /\ UNION { HandedRows(w) : w \in 1 .. Len(procs) } = 0 .. (ReadExtent(cfg) - 1)

\* C12: the dark/flat calibration read has completed before any worker thread
\* is started, and the bulk read returns its buffer only after every worker
\* thread it started has terminated and been joined, whatever the order in
\* which the workers finish.
C12_ReaderOrdering ==
    /\ (procs # <<>>) => CalibRead
    /\ ReadReturned =>
           /\ joined = Len(procs)
           /\ \A w \in 1 .. Len(procs) : procs[w].state # "running"

\* C12 witness: a bulk read with three workers has returned, every worker
\* joined and the buffer completely filled
C12_Witness ==
    /\ ReadReturned /\ Len(procs) = 3 /\ joined = 3
    /\ \A w \in 1 .. Len(procs) : procs[w].state = "done"
    /\ heap["raw"] = RawArray(cfg)

\* C13 (as claimed): once a worker thread of the bulk read has failed, the
\* bulk read does not return its buffer, and recon_steps_all starts neither
\* pipeline nor the backprojection.
C13_WorkerFailureAborts ==
    (\E w \in 1 .. Len(procs) : procs[w].state = "failed") =>
        /\ ~ReadReturned
        /\ phase \notin {"sino", "proj", "backproj", "done"}
        /\ backprojArg = "none"

\* C14 (as claimed): two runs of a pipeline from identical source contents,
\* with the same chunk plan and a pure stage function, leave identical
\* destination contents, whatever the order in which the streams executed
\* their operations.
C14_Deterministic ==
    (Returned /\ firstResult.done) => heap[dstId] = firstResult.val

\* the host's positions inside the loop body after the progress report
AfterReport == {"compute", "store", "load", "load2", "sync3", "copy", "copy2", "sync1", "sync2"}

\* C15 (as claimed): the progress sink is invoked once per iteration k with
\* current = k and total = chunkCount, and the report of iteration k is issued
\* after that iteration's barrier.
C15_ProgressAsClaimed ==
    (phase \in {"sino", "proj"} /\ pc # "alloc") =>
        /\ \A n \in 1 .. Len(progress) : progress[n] = <<n - 1, NChunk>>
        /\ (pc \in AfterReport) => Len(progress) = k
        /\ Returned => Len(progress) = NChunk + 2

\* C15 (amended): the progress sink is invoked once per iteration k with
\* current = k and total = chunkCount + 1, and the report of iteration k is
\* issued at the start of the iteration, before anything of that iteration
\* is enqueued and before its barrier.
C15_ProgressAtIterationStart ==
    (phase \in {"sino", "proj"} /\ pc # "alloc") =>
        /\ \A n \in 1 .. Len(progress) : progress[n] = <<n - 1, NChunk + 1>>
        /\ (pc = "progress") => Len(progress) = k
        /\ (pc \in AfterReport \cup {"raised", "return", "ret"}) => Len(progress) = k + 1
        /\ \A m \in 1 .. Len(issued) : issued[m][3] < Len(progress)
        /\ Returned => Len(progress) = NChunk + 2

\* C15 witness: a run of three chunks has returned after five reports, the
\* last one <<4, 4>>
C15_Witness ==
    /\ Returned /\ NChunk = 3
    /\ Len(progress) = 5 /\ progress[5] = <<4, 4>>

\* C16: in recon_steps_all the bulk read has returned (every worker joined)
\* before the sinogram pipeline starts; the sinogram pipeline has flushed all
\* its chunks when the projection pipeline is called, whose source is the
\* sinogram pipeline's destination; the projection pipeline has flushed all
\* its chunks when backprojection is invoked on its destination; with
\* pre_processing off no pipeline runs and backprojection receives the
\* bulk-read buffer.
C16_StageSequencing ==
    /\ [][ (cfg.caller = "recon") =>
             /\ (phase = "read" /\ phase' # "read") =>
                    /\ joined = Len(procs)
                    /\ \A w \in 1 .. Len(procs) : procs[w].state # "running"
                    /\ phase' = (IF cfg.preproc THEN "sino" ELSE "backproj")
             /\ (phase = "sino" /\ phase' # "sino") =>
                    /\ phase' = "proj" /\ FlushedAll /\ chan = [ch \in Channels |-> <<>>]
                    /\ dstId = "sres" /\ srcId' = "sres"
             /\ (phase = "proj" /\ phase' # "proj") =>
                    /\ phase' = "done" /\ FlushedAll /\ chan = [ch \in Channels |-> <<>>]
                    /\ backprojArg' = dstId
             /\ (phase = "backproj" /\ phase' # "backproj") =>
                    /\ phase' = "done" /\ backprojArg' = "raw" /\ issued = <<>>
          ]_vars
    /\ [] ( (cfg.caller = "recon") =>
             /\ (phase \in {"sino", "proj"}) => (cfg.preproc /\ ReadReturned)
             /\ (phase = "backproj") => (~cfg.preproc /\ ReadReturned)
             /\ (phase = "proj") => srcId = "sres"
             /\ (backprojArg # "none") <=> (phase = "done") )

\* C16 witness: a chained run over two sinogram chunks and two projection
\* chunks has handed the projection pipeline's destination, equal to the
\* bulk-read dataset, to the backprojection
C16_Witness ==
    /\ cfg.caller = "recon" /\ cfg.preproc /\ phase = "done"
    /\ ChunkCount(cfg, "sino") = 2 /\ ChunkCount(cfg, "proj") = 2
    /\ backprojArg = dstId /\ heap[backprojArg] = RawArray(cfg)

\* C17 (as claimed): when the Load of iteration k <= C-1 has been waited for,
\* the leading len_k lines of input slot k mod 2 equal the source's lines at
\* chunk k's range, for every array loaded, in both storage modes and both
\* pipelines.
C17_LoadFillsSlot ==
    (InPipeline /\ pc = "sync2" /\ LoadDue(k)) =>
        \A r \in Roles(phase) :
            Leading(inGpu[r][k % 2], ChunkLength(cfg, phase, k))
              = ReadSlice(heap[SrcOf(r)], Axis(phase), ChunkStart(cfg, phase, k),
                          ChunkLength(cfg, phase, k))

\* C18: every operation enqueued is for a chunk i in 0 .. C-1 and uses slot
\* i mod 2; the Load of chunk i is enqueued in iteration i, its Compute in
\* iteration i+1 and its Store in iteration i+2, each once (so iteration 0
\* enqueues only a Load, iteration C no Load and iteration C+1 only a Store);
\* a run that returns has enqueued all three for every chunk.
C18_StageOffset ==
    (phase \in {"sino", "proj"} /\ pc # "alloc") =>
        /\ \A m \in 1 .. Len(issued) :
               /\ issued[m][2] \in 0 .. (NChunk - 1)
               /\ issued[m][4] = issued[m][2] % 2
               /\ issued[m][1] = "Load" => issued[m][3] = issued[m][2]
               /\ issued[m][1] = "Compute" => issued[m][3] = issued[m][2] + 1
               /\ issued[m][1] = "Store" => issued[m][3] = issued[m][2] + 2
        /\ \A m1 \in 1 .. Len(issued) : \A m2 \in 1 .. Len(issued) :
               (m1 # m2) => issued[m1] # issued[m2]
        /\ Returned =>
               \A i \in 0 .. (NChunk - 1) : \A ch \in Channels :
                   \E m \in 1 .. Len(issued) : issued[m][1] = ch /\ issued[m][2] = i

\* C18 witness: a run of four chunks has returned with its twelve operations
\* enqueued, the last iteration enqueueing only the Store of chunk 3
C18_Witness ==
    /\ Returned /\ NChunk = 4 /\ Len(issued) = 12
    /\ issued[12] = <<"Store", 3, 5, 1>>
    /\ issued[1] = <<"Load", 0, 0, 0>>

\* C19: in every iteration the host waits for the Store stream first, then (in
\* in-memory mode, from iteration 2 on) copies pinned output slot (k-2) mod 2
\* into the destination at chunk k-2's range, then waits for the Load and the
\* Compute stream: the host copy starts only when the transfer into the slot it
\* reads has completed and no Store is in flight, and all three streams are
\* idle at every iteration boundary.
C19_BarrierProtocol ==
    (phase \in {"sino", "proj"} /\ pc # "alloc") =>
        /\ (pc \in {"copy", "copy2", "sync1", "sync2"}) => chan["Store"] = <<>>
        /\ (pc = "sync2") => chan["Load"] = <<>>
        /\ (pc \in {"progress", "return", "ret"}) => chan = [ch \in Channels |-> <<>>]
        /\ (hostOp.kind = "flush") =>
               /\ pc = "copy2" /\ ~IsZarr /\ k >= 2 /\ hostOp.i = k - 2
               /\ <<"Store", k - 2>> \in completed
        /\ (pc \in {"sync1", "sync2"} /\ ~IsZarr /\ k >= 2) =>
               /\ flushed # <<>>
               /\ flushed[Len(flushed)].k = k /\ flushed[Len(flushed)].i = k - 2
               /\ flushed[Len(flushed)].lo = (k - 2) * ChunkStride(cfg, phase)
               /\ flushed[Len(flushed)].n = ChunkLength(cfg, phase, k - 2)
        /\ (pc \in {"sync1", "sync2"} /\ (IsZarr \/ k < 2)) =>
               \A n \in 1 .. Len(flushed) : flushed[n].by # "host"

\* C19 witness: in iteration 2 the host copies chunk 0 out of pinned slot 0
\* while the Load of chunk 2 and the Compute of chunk 1 are still executing
C19_Witness ==
    /\ hostOp = [kind |-> "flush", i |-> 0] /\ k = 2
    /\ Running("Load") /\ Running("Compute")
    /\ chan["Store"] = <<>>

\* C20 (as claimed): the Load, Compute and Store operations and the host
\* copies for a chunk access only the leading len_i lines of slot i mod 2,
\* and only those are written to the destination.
C20_OnlyValidSubExtent ==
    (phase \in {"sino", "proj"} /\ pc # "alloc") =>
        /\ \A o \in Outstanding : SlotLines(o) \subseteq 0 .. (ChunkLength(cfg, phase, o.i) - 1)
        /\ \A n \in 1 .. Len(flushed) : flushed[n].n = ChunkLength(cfg, phase, flushed[n].i)

\* C20 (amended): the host copies for a chunk (the staging copy into the pinned
\* input slot and the copy into the destination) access only the leading
\* len_i lines of slot i mod 2, so the destination is written at chunk i's
\* range only and the lines of the pinned slot beyond len_i keep the data of
\* chunk i-2; the stage function is handed whole slots, and in in-memory mode
\* the host-device transfers move whole slots.
C20_SubViewAtHostCopies ==
    (phase \in {"sino", "proj"} /\ pc # "alloc") =>
        /\ \A n \in 1 .. Len(flushed) :
               /\ flushed[n].lo = ChunkStart(cfg, phase, flushed[n].i)
               /\ flushed[n].n = ChunkLength(cfg, phase, flushed[n].i)
        /\ \A o \in Outstanding :
               /\ (o.who \in {"fill", "flush"}) =>
                      SlotLines(o) = 0 .. (ChunkLength(cfg, phase, o.i) - 1)
               /\ (o.who = "Compute" \/ (~IsZarr /\ o.who \in {"Load", "Store"})) =>
                      SlotLines(o) = 0 .. (ChunkStride(cfg, phase) - 1)
        /\ (~IsZarr /\ InPipeline /\ pc = "sync3" /\ LoadDue(k) /\ k >= 2) =>
               \A j \in ChunkLength(cfg, phase, k) .. (ChunkStride(cfg, phase) - 1) :
                   inPin["data"][k % 2][j]
                     = Line(heap[srcId], Axis(phase), ChunkStart(cfg, phase, k - 2) + j)

\* C20 witness: an in-memory run over chunks of lengths [3, 3, 1] has returned;
\* the last chunk was written to the destination as one line, and pinned input
\* slot 0 still holds the last two lines of chunk 0 behind it
C20_Witness ==
    /\ Returned /\ ~IsZarr /\ NChunk = 3
    /\ ChunkStride(cfg, phase) = 3 /\ ChunkLength(cfg, phase, 2) = 1
    /\ Len(flushed) = 3 /\ flushed[3].i = 2 /\ flushed[3].n = 1
    /\ inPin["data"][0][0] = Line(RawArray(cfg), Axis(phase), 6)
    /\ inPin["data"][0][2] = Line(RawArray(cfg), Axis(phase), 2)

\* C21: in the in-place projection pipeline the Load of chunk i has completed
\* before a Store of chunk i is enqueued and before the array's range of chunk
\* i is written; a range not yet written still holds the original values, so
\* every Load reads unprocessed data, and a completed in-memory run leaves
\* every entry processed exactly once.
C21_InPlaceReadBeforeWrite ==
    InPlace =>
        /\ \A n \in 1 .. Len(flushed) : <<"Load", flushed[n].i>> \in completed
        /\ \A m \in 1 .. Len(issued) :
               (issued[m][1] = "Store") => <<"Load", issued[m][2]>> \in completed
        /\ (hostOp.kind = "flush") => <<"Load", hostOp.i>> \in completed
        /\ \A i \in 0 .. (NChunk - 1) :
               (i \notin FlushedChunks) =>
                   ReadSlice(heap[srcId], "a", ChunkStart(cfg, phase, i), ChunkLength(cfg, phase, i))
                     = ReadSlice(SourceData, "a", ChunkStart(cfg, phase, i), ChunkLength(cfg, phase, i))
        /\ (InPipeline /\ ~IsZarr /\ pc = "sync2" /\ LoadDue(k)) =>
               Leading(inGpu["data"][k % 2], ChunkLength(cfg, phase, k))
                 = ReadSlice(SourceData, "a", ChunkStart(cfg, phase, k), ChunkLength(cfg, phase, k))
        /\ (Returned /\ ~IsZarr) =>
               \A a \in DOMAIN heap[dstId] : \A z \in DOMAIN heap[dstId][a] :
                   heap[dstId][a][z] = StageValue(cfg.stage, SourceData[a][z])

\* C21 witness: an in-place in-memory run over three chunks with a stage that
\* changes every entry has returned, every entry changed once
C21_Witness ==
    /\ InPlace /\ Returned /\ ~IsZarr /\ cfg.caller = "proj"
    /\ cfg.stage = "neg" /\ NChunk = 3 /\ ChunkLength(cfg, phase, 2) < ChunkStride(cfg, phase)
    /\ \A a \in DOMAIN heap[dstId] : heap[dstId][a][0] = 0 - RawArray(cfg)[a][0]

\* C22: a pipeline run writes to none of its source arrays unless it is
\* proc_proj_parallel with file_type != 'double_fov', whose destination is the
\* source object itself: in proc_sino_parallel (data, dark, flat) and in
\* proc_proj_parallel with double_fov the destination is another object and
\* every source array holds, during and after the run, what it held before.
C22_SourceFrame ==
    (phase \in {"sino", "proj"} /\ pc # "alloc") =>
        /\ heap["dark"] = CalibArray(cfg, 1)
        /\ heap["flat"] = CalibArray(cfg, 2)
        /\ (phase = "sino" \/ cfg.doubleFov) =>
               /\ dstId # srcId
               /\ heap[srcId] = SourceAtStart
        /\ (phase = "proj" /\ ~cfg.doubleFov) =>
               /\ dstId = srcId
               /\ Returned => returned = srcId

\* C22 witness: a sinogram run with a stage that changes every entry has
\* returned a destination that differs from the source, which is intact
C22_Witness ==
    /\ Returned /\ phase = "sino" /\ cfg.stage = "neg" /\ NChunk = 3
    /\ heap[srcId] = RawArray(cfg)
    /\ heap[dstId] # heap[srcId]
    /\ \A n \in 1 .. Len(flushed) : flushed[n].n > 0

\* C23 (as claimed): every worker the bulk read starts is handed a range with
\* 0 <= st_proj < end_proj <= S, S = data.shape[0] the leading extent of the
\* buffer, for every worker count, every S and every number of projections
\* to read.
C23_ReaderRangeBounds ==
    \A w \in 1 .. Len(procs) :
        /\ 0 <= procs[w].st
        /\ procs[w].st < procs[w].en
        /\ procs[w].en <= cfg.nproj

====
